---- MODULE Spec2Model ----
(***************************************************************************)
(* Tutoring session orchestrator of the edilmai API: the session router    *)
(* (routers/v1/session.py), the session and profile repositories           *)
(* (services/repositories.py, services/container.py,                       *)
(* services/firestore_repository.py), the answer evaluator                 *)
(* (services/orchestrator.py, services/llm.py) and the progression         *)
(* service (services/progression.py).                                      *)
(*                                                                         *)
(* The route handlers are plain `def` functions, which FastAPI runs on a   *)
(* thread pool: two requests interleave.  A step request is modelled in    *)
(* two atomic parts, split at the one blocking call it makes (the judge    *)
(* request in evaluate_simplified): StepBegin is do_step up to the call,   *)
(* StepComplete is the judge's reply and the rest of do_step.              *)
(*                                                                         *)
(* Python's None is the string "None"; a key a dict does not hold is the   *)
(* string "absent"; booleans that may be None or absent are the strings    *)
(* "True" and "False"; a number a dict does not hold is -1.                *)
(*                                                                         *)
(* cache is ITEMS_REPO._cache, the items in the dict's enumeration order;  *)
(* pg is one call of the progression service when it is checked alone.     *)
(***************************************************************************)
EXTENDS Integers, Sequences, FiniteSets, TLC

VARIABLES cache, store, llm, sessions, profiles, calls, nreq, resp, ends, ev, pg

vars == <<cache, store, llm, sessions, profiles, calls, nreq, resp, ends, ev, pg>>

(***************************************************************************)
(* Bounds of the model.                                                    *)
(***************************************************************************)
\* number of requests (start, resume, step, end) accepted over a run
MaxRequests == 3

\* largest attempts_so_far handed to the evaluator when it is checked alone
MaxAttempts == 3

\* most items of a cache handed to the progression service checked alone
MaxCatalog == 3

\* most items of a completed_items list handed to it
MaxCompleted == 2

\* largest major and minor of the numeral of a sub_topic label handed to it
MaxMajor == 2

MaxMinor == 10

\* the clock readings of the misconception tracker are 1..MaxTime
MaxTime == 3

\* the most tag occurrences a session's tracker records
MaxRecorded == 3

None == "None"

Absent == "absent"

Learners == {"L1", "L2"}

UserResponses == {"b + 4"}

(***************************************************************************)
(* The catalog.  ITEMS_REPO is the cache HybridItemsRepo loads at startup; *)
(* the curriculum service reads the curriculum_questions collection, which *)
(* may hold questions synced after startup.  An item is kept with the      *)
(* features of its id that the code computes by string operations:         *)
(* ns is the id's text before the first hyphen, question_num the number    *)
(* after its last "-Q", id_tokens the subtopic tokens its id contains, and *)
(* id_keyword the topic session.py infers from keywords in the id.         *)
(***************************************************************************)
\* A sub_topic label, kept with what _extract_subtopic_order and
\* _matches_subtopic read of it.  kind is the form of the label's first
\* whitespace-separated token: "decimal" is digits "." digits (major, minor as
\* written with `width` digits), "integer" is digits only (major), "word" is
\* text float() rejects, "inf" is text float() reads as infinity, "none" is
\* the label "" or a missing one.  dot tells whether the label holds a "."
\* anywhere; word is the label's text when the label is a single word.
Label(kind, major, minor, width, dot, word) ==
    [kind |-> kind, major |-> major, minor |-> minor, width |-> width,
     dot |-> dot, word |-> word]

NoLabel == Label("none", 0, 0, 0, FALSE, "")

Numeral(major, minor, width) == Label("decimal", major, minor, width, TRUE, "")

WordLabel(word) == Label("word", 0, 0, 0, FALSE, word)

ItemFields(id, ns, topic, subtopic, sub_topic, complexity, marks, qnum, tokens, kw, txp) ==
    [id |-> id, ns |-> ns, topic |-> topic, subtopic |-> subtopic,
     sub_topic |-> sub_topic, complexity |-> complexity, marks |-> marks,
     question_num |-> qnum, id_tokens |-> tokens, id_keyword |-> kw,
     telemetry_xp |-> txp]

\* ITEMS_REPO._cache as loaded at startup, in its enumeration order
CatalogItems ==
    << ItemFields("ALGEBRA-INTRO-Q1", "ALGEBRA", "algebra", "intro", NoLabel, "Easy", 1, 1,
                  {"INTRO", "ALGEBRA-INTRO"}, "algebra", -1),
       ItemFields("ALGEBRA-INTRO-Q2", "ALGEBRA", "algebra", "intro", NoLabel, "Medium", 2, 2,
                  {"INTRO", "ALGEBRA-INTRO"}, "algebra", 15),
       ItemFields("FRACTIONS-DIV-Q1", "FRACTIONS", "fractions", "div", NoLabel, "Hard", 3, 1,
                  {"DIV"}, "fractions", 20) >>

\* questions of the curriculum_questions collection that the cache does not hold
UncachedItems ==
    << ItemFields("NEW-Q1", "NEW", "algebra", "intro", NoLabel, "Medium", 2, 1,
                  {}, None, -1) >>

\* items of caches handed to the progression service checked alone: three
\* sub_topic labels "1.1 ...", "1.2 ..." and "2.1 ...", two items that agree on
\* label, question number and complexity, an item of another topic whose id
\* holds the word ALGEBRA, a label "1.10 ...", and an item whose id has no
\* topic prefix, whose topic field is "Algebra" and whose sub_topic is the
\* subtopic id "simp"
ProgItems ==
    { ItemFields("ALGEBRA-BASICS-Q1", "ALGEBRA", "algebra", "basics", Numeral(1, 1, 1),
                 "Easy", 1, 1, {}, "algebra", -1),
      ItemFields("ALGEBRA-SIMP-Q1", "ALGEBRA", "algebra", "simp", Numeral(1, 2, 1),
                 "Easy", 1, 1, {"SIMP"}, "algebra", -1),
      ItemFields("ALGEBRA-SIMP-Q2", "ALGEBRA", "algebra", "simp", Numeral(1, 2, 1),
                 "Medium", 2, 2, {"SIMP"}, "algebra", -1),
      ItemFields("ALGEBRA-EQN-Q1", "ALGEBRA", "algebra", "eqn", Numeral(2, 1, 1),
                 "Easy", 1, 1, {}, "algebra", -1),
      ItemFields("ALGEBRA-SIMPLIFY-Q1", "ALGEBRA", "algebra", "simplify", Numeral(1, 2, 1),
                 "Easy", 1, 1, {"SIMP"}, "algebra", -1),
      ItemFields("RATIO-ALGEBRA-Q1", "RATIO", "ratio", "ratio-basics", NoLabel,
                 "Easy", 1, 1, {}, "algebra", -1),
      ItemFields("ALGEBRA-WORD-Q1", "ALGEBRA", "algebra", "word", Numeral(1, 10, 2),
                 "Easy", 1, 1, {}, "algebra", -1),
      ItemFields("LEGACY-Q1", "LEGACY", "Algebra", "simp", WordLabel("simp"),
                 "Easy", 1, 1, {}, None, -1) }

\* the items of the caches the scanning functions (get_next_item_id,
\* recommend_next_session, get_progression_status) are handed
ScanItems ==
    {it \in ProgItems : it.id \in {"ALGEBRA-BASICS-Q1", "ALGEBRA-SIMP-Q1",
                                    "ALGEBRA-SIMP-Q2", "RATIO-ALGEBRA-Q1"}}

CachedIds == {cache[i].id : i \in 1..Len(cache)}

CurriculumIds == CachedIds \cup {UncachedItems[i].id : i \in 1..Len(UncachedItems)}

\* an id no store holds
UnknownItemId == "NO-SUCH-ITEM"

\* a subtopic identifier: kebab-case, no topic prefix, the keyword "algebra"
SubtopicId == "algebra-intro"

RequestItemIds == CurriculumIds \cup {UnknownItemId, SubtopicId}

\* the dict {}: every key absent.  It also stands for the None of a failed lookup
EmptyItem ==
    ItemFields(None, Absent, Absent, Absent, NoLabel, Absent, -1, 0, {}, None, -1)

\* answer_details.correct_answer of the cached items, the answer of the sample
\* item; "" is the default evaluate_simplified reads from an item without it
correct_answer(item) == IF item.id = None THEN "" ELSE "b + 4"

\* ai_guidance.hints of the cached items: one hint at each of the levels 1, 2, 3
hints(item) == IF item.id = None THEN <<>> ELSE <<"hint 1", "hint 2", "hint 3">>

\* ITEMS_REPO.get_item: the cached item, or None (EmptyItem)
get_item(item_id) ==
    IF item_id \in CachedIds
    THEN CHOOSE it \in {cache[i] : i \in 1..Len(cache)} : it.id = item_id
    ELSE EmptyItem

\* CurriculumService.get_question: the question document, or None (EmptyItem)
get_question(question_id) ==
    IF question_id \in CachedIds THEN get_item(question_id)
    ELSE IF question_id \in CurriculumIds
    THEN CHOOSE it \in {UncachedItems[i] : i \in 1..Len(UncachedItems)} : it.id = question_id
    ELSE EmptyItem

(***************************************************************************)
(* Sequence helpers.                                                       *)
(***************************************************************************)
Range(s) == {s[i] : i \in 1..Len(s)}

\* list.index(x) as a 1-based position, 0 when x is not in the list
IndexOf(s, x) ==
    IF x \in Range(s) THEN CHOOSE i \in 1..Len(s) : s[i] = x /\ \A j \in 1..(i-1) : s[j] # x
    ELSE 0

(***************************************************************************)
(* str.upper() and str.lower() on the strings of the model.                *)
(***************************************************************************)
Upper(s) ==
    CASE s \in {"algebra", "Algebra", "ALGEBRA"} -> "ALGEBRA"
      [] s \in {"fractions", "Fractions", "FRACTIONS"} -> "FRACTIONS"
      [] s \in {"intro", "Intro", "INTRO"} -> "INTRO"
      [] s \in {"div", "Div", "DIV"} -> "DIV"
      [] s \in {"algebra-intro", "ALGEBRA-INTRO"} -> "ALGEBRA-INTRO"
      [] s \in {"ratio", "Ratio", "RATIO"} -> "RATIO"
      [] s \in {"simp", "Simp", "SIMP"} -> "SIMP"
      [] OTHER -> s

Lower(s) ==
    CASE s \in {"algebra", "Algebra", "ALGEBRA"} -> "algebra"
      [] s \in {"fractions", "Fractions", "FRACTIONS"} -> "fractions"
      [] s \in {"intro", "Intro", "INTRO"} -> "intro"
      [] s \in {"div", "Div", "DIV"} -> "div"
      [] s \in {"algebra-intro", "ALGEBRA-INTRO"} -> "algebra-intro"
      [] s \in {"ratio", "Ratio", "RATIO"} -> "ratio"
      [] s \in {"simp", "Simp", "SIMP"} -> "simp"
      [] s = "NEW-Q1" -> "new-q1"
      [] s = "NO-SUCH-ITEM" -> "no-such-item"
      [] OTHER -> s

(***************************************************************************)
(* ProgressionService (services/progression.py).                           *)
(***************************************************************************)
\* difficulty_map of get_topic_progression, in tenths
Difficulty(complexity) ==
    CASE complexity = "Easy" -> 3
      [] complexity = "Medium" -> 6
      [] complexity = "Hard" -> 9
      [] OTHER -> 5

RECURSIVE Pow10(_)
Pow10(n) == IF n = 0 THEN 1 ELSE 10 * Pow10(n - 1)

\* the value that stands for the OverflowError int(float("inf") * 10) raises,
\* which the except clause (ValueError, IndexError) does not catch
OverflowError == -1

\* no "." in the label gives 0; otherwise int(float(first token) * 10), which
\* drops every digit of the fraction after its first; a ValueError gives 0
_extract_subtopic_order(sub_topic) ==
    IF sub_topic.kind = "none" THEN 0
    ELSE IF ~sub_topic.dot THEN 0
    ELSE CASE sub_topic.kind = "decimal" ->
                  sub_topic.major * 10
                      + ((sub_topic.minor * 10) \div Pow10(sub_topic.width))
           [] sub_topic.kind = "integer" -> sub_topic.major * 10
           [] sub_topic.kind = "inf" -> OverflowError
           [] OTHER -> 0

_extract_question_number(item) == item.question_num

\* a match on the topic name anywhere in the id
_discover_topic_items_Contains(topic_name) ==
    SelectSeq(cache,
              LAMBDA it : \/ it.id_keyword = Lower(topic_name)
                          \/ Lower(it.topic) = Lower(topic_name))

\* topic ids of the catalog hold no hyphen, so "id starts with TOPIC-" is
\* "the text before the id's first hyphen is TOPIC"
_discover_topic_items(topic_name) ==
    SelectSeq(cache,
              LAMBDA it : \/ it.ns = Upper(topic_name)
                          \/ Lower(it.topic) = Lower(topic_name))

\* a label that starts with a numeral equals no subtopic filter of the model
_matches_subtopic(item, item_sub_topic, subtopic_filter) ==
    \/ /\ item_sub_topic.kind # "none"
       /\ item_sub_topic.kind = "word"
       /\ Lower(item_sub_topic.word) = Lower(subtopic_filter)
    \/ Upper(subtopic_filter) \in item.id_tokens

OrderKey(it) ==
    << _extract_subtopic_order(it.sub_topic), _extract_question_number(it),
       Difficulty(it.complexity) >>

KeyLess(a, b) ==
    \/ a[1] < b[1]
    \/ a[1] = b[1] /\ a[2] < b[2]
    \/ a[1] = b[1] /\ a[2] = b[2] /\ a[3] < b[3]

\* insert x after every element whose key is not greater: list.sort is stable
RECURSIVE InsertSorted(_, _)
InsertSorted(sorted, x) ==
    IF sorted = <<>> THEN <<x>>
    ELSE IF KeyLess(OrderKey(x), OrderKey(Head(sorted)))
         THEN <<x>> \o sorted
         ELSE <<Head(sorted)>> \o InsertSorted(Tail(sorted), x)

RECURSIVE StableSort(_)
StableSort(items) ==
    IF items = <<>> THEN <<>>
    ELSE InsertSorted(StableSort(SubSeq(items, 1, Len(items) - 1)), items[Len(items)])

\* subtopic_filter None or "" applies no filter
get_topic_progression(topic_name, subtopic_filter) ==
    LET discovered == _discover_topic_items(topic_name)
        available == SelectSeq(discovered,
                         LAMBDA it : \/ subtopic_filter \in {None, ""}
                                     \/ _matches_subtopic(it, it.sub_topic, subtopic_filter))
        ordered == StableSort(available)
    IN  [i \in 1..Len(ordered) |-> ordered[i].id]

\* a scan that ends on the list's first item where the code returns None
RECURSIVE FirstNotCompleted_Wrap(_, _, _)
FirstNotCompleted_Wrap(s, from, completed_items) ==
    IF from > Len(s) THEN (IF s = <<>> THEN None ELSE s[1])
    ELSE IF s[from] \notin Range(completed_items) THEN s[from]
    ELSE FirstNotCompleted_Wrap(s, from + 1, completed_items)

\* the first element of s from position `from` on that is not in completed, or None
RECURSIVE FirstNotCompleted(_, _, _)
FirstNotCompleted(s, from, completed_items) ==
    IF from > Len(s) THEN None
    ELSE IF s[from] \notin Range(completed_items) THEN s[from]
    ELSE FirstNotCompleted(s, from + 1, completed_items)

\* a scan that starts at the head of the progression wherever the current item is
get_next_item_id_FromStart(current_item_id, completed_items, topic_name, subtopic_filter) ==
    FirstNotCompleted(get_topic_progression(topic_name, subtopic_filter), 1, completed_items)

get_next_item_id(current_item_id, completed_items, topic_name, subtopic_filter) ==
    LET progression == get_topic_progression(topic_name, subtopic_filter)
        current_index == IndexOf(progression, current_item_id)
    IN  IF current_index # 0
        THEN FirstNotCompleted(progression, current_index + 1, completed_items)
        ELSE FirstNotCompleted(progression, 1, completed_items)

\* a recommendation that turns to the whole topic once the filtered
\* progression has nothing left
recommend_next_session_AnyScope(completed_items, topic_name, subtopic_filter) ==
    LET progression == get_topic_progression(topic_name, subtopic_filter)
        topic_completed == SelectSeq(completed_items, LAMBDA id : id \in Range(progression))
        scoped == IF progression = <<>> THEN None
                  ELSE IF topic_completed = <<>> THEN progression[1]
                  ELSE get_next_item_id(topic_completed[Len(topic_completed)],
                                        completed_items, topic_name, subtopic_filter)
    IN  IF scoped # None THEN scoped
        ELSE FirstNotCompleted(get_topic_progression(topic_name, None), 1, completed_items)

\* a recommendation that passes over the progression's first item
recommend_next_session_SkipFirst(completed_items, topic_name, subtopic_filter) ==
    LET progression == get_topic_progression(topic_name, subtopic_filter)
    IN  IF progression = <<>> THEN None
        ELSE get_next_item_id(progression[1], completed_items, topic_name, subtopic_filter)

recommend_next_session(completed_items, topic_name, subtopic_filter) ==
    LET progression == get_topic_progression(topic_name, subtopic_filter)
        topic_completed == SelectSeq(completed_items, LAMBDA id : id \in Range(progression))
    IN  IF progression = <<>> THEN None
        ELSE IF topic_completed = <<>> THEN progression[1]
        ELSE get_next_item_id(topic_completed[Len(topic_completed)], completed_items,
                              topic_name, subtopic_filter)

\* completion_percentage is kept as the whole percent
get_progression_status(completed_items, topic_name) ==
    LET progression == get_topic_progression(topic_name, None)
        total_items == Len(progression)
        completed_count == Len(SelectSeq(completed_items,
                                         LAMBDA id : id \in Range(progression)))
    IN  [total_items |-> total_items,
         completed_count |-> completed_count,
         completion_percentage |-> IF total_items > 0
                                   THEN (completed_count * 100) \div total_items
                                   ELSE 0,
         next_item_id |-> get_next_item_id(
                              IF completed_items # <<>>
                              THEN completed_items[Len(completed_items)] ELSE "",
                              completed_items, topic_name, None),
         progression_items |-> progression]

(***************************************************************************)
(* The answer evaluator (services/orchestrator.py).                        *)
(*                                                                         *)
(* The judge is external: its reply to one request is any element of       *)
(* JudgeReplies.  kind "raise" is a failed call, "nonjson" a reply that is *)
(* no JSON object, "json" an object with each of the three fields present  *)
(* ("True", "False", text) or missing (Absent).                            *)
(***************************************************************************)
Reply(kind, is_correct, feedback, should_advance) ==
    [kind |-> kind, is_correct |-> is_correct, feedback |-> feedback,
     should_advance |-> should_advance]

JudgeReplies ==
    {Reply("raise", Absent, Absent, Absent), Reply("nonjson", Absent, Absent, Absent)}
    \cup {Reply("json", c, f, a) : c \in {"True", "False", Absent},
                                   f \in {"fb", "", Absent},
                                   a \in {"True", "False", Absent}}

\* the replies drawn for a step of the session API: evaluate_simplified reads
\* feedback "" as it reads a missing feedback, and never reads should_advance,
\* so one value of each stands for the others
StepReplies ==
    {r \in JudgeReplies :
        r.kind = "json" => (r.feedback # "" /\ r.should_advance = "True")}

\* the keys of evaluation_data; Absent (-1 for the confidence) where the dict
\* holds no such key; its one reader takes absent misconception_tags as []
EvaluationData(insight, tags, confidence, error) ==
    [learning_insight |-> insight, misconception_tags |-> tags,
     confidence_level |-> confidence, error |-> error]

Evaluation(correctness, next_prompt, hint, data) ==
    [correctness |-> correctness, next_prompt |-> next_prompt, hint |-> hint,
     evaluation_data |-> data]

\* dict.get(key, default) on a field that may be Absent
Get(value, default) == IF value = Absent THEN default ELSE value

\* LLMClient.parse_json_response(response, defaults): the parsed object, an
\* exception for a reply that is not JSON
parse_json_response(reply) ==
    IF reply.kind = "json" THEN reply ELSE Reply("raise", Absent, Absent, Absent)

\* an evaluate_simplified whose except branch falls back to the verdict False
evaluate_simplified_Fallback(llm_configured, reply, attempts_so_far) ==
    IF ~llm_configured
    THEN Evaluation(None, None, "I need to think about this. Let's try again.",
                    EvaluationData(Absent, <<>>, -1, Absent))
    ELSE LET result == IF reply.kind = "raise" THEN reply ELSE parse_json_response(reply)
             correctness == IF result.kind = "raise" THEN "False"
                            ELSE Get(result.is_correct, "False")
             feedback == Get(result.feedback, "")
         IN  Evaluation(correctness,
                        IF correctness = "True" THEN feedback ELSE None,
                        IF correctness # "True" THEN feedback ELSE None,
                        EvaluationData(feedback, <<>>,
                                       IF correctness = "True" THEN 9 ELSE 7, Absent))

\* confidence levels in tenths: 0.9 is 9, 0.7 is 7, 1.0 is 10
evaluate_simplified(llm_configured, reply, attempts_so_far) ==
    IF ~llm_configured
    THEN Evaluation(None, None, "I need to think about this. Let's try again.",
                    EvaluationData(Absent, <<>>, -1, Absent))
    ELSE LET result == IF reply.kind = "raise" THEN reply ELSE parse_json_response(reply)
         IN  IF result.kind = "raise"
             THEN Evaluation(None, None, "Oops! Please try submitting it again!",
                             EvaluationData(Absent, <<>>, -1, "AI_EVALUATION_FAILED"))
             ELSE LET correctness == Get(result.is_correct, "False")
                      feedback == Get(result.feedback, "")
                  IN  Evaluation(correctness,
                                 IF correctness = "True" THEN feedback ELSE None,
                                 IF correctness # "True" THEN feedback ELSE None,
                                 EvaluationData(feedback, <<>>,
                                                IF correctness = "True" THEN 9 ELSE 7,
                                                Absent))

(***************************************************************************)
(* The session store (InMemorySessionsRepo, FirestoreSessionsRepo over     *)
(* FirestoreRepository).  sessions is the sequence of session records in   *)
(* creation order; a session id is its position, and Len(sessions) + 1 is  *)
(* an id no session has.  Every operation takes                            *)
(* the store contents and returns the contents after the call.             *)
(***************************************************************************)
Exists(ss, session_id) == session_id \in 1..Len(ss)

\* the in-memory record has no success key; the Firestore document has one
create_session(st, ss, learner_id, item_id) ==
    Append(ss, [learner_id |-> learner_id, item_id |-> item_id, steps |-> <<>>,
                conversation_history |-> <<>>, current_step_idx |-> 0,
                attempts_current |-> 0, hints_used |-> 0, finished |-> FALSE,
                success |-> IF st = "memory" THEN Absent ELSE "False",
                learning_insights |-> <<>>, misconceptions |-> <<>>])

InMemorySessionsRepo_append_step(ss, session_id, step) ==
    [ss EXCEPT ![session_id].steps = Append(@, step)]

FirestoreSessionsRepo_append_step(ss, session_id, step) == ss

append_step(st, ss, session_id, step) ==
    IF st = "memory" THEN InMemorySessionsRepo_append_step(ss, session_id, step)
    ELSE FirestoreSessionsRepo_append_step(ss, session_id, step)

\* an inc_attempt that closes the session at the second failed attempt
InMemorySessionsRepo_inc_attempt_Capped(ss, session_id) ==
    [ss EXCEPT ![session_id].attempts_current = @ + 1,
               ![session_id].finished = (ss[session_id].attempts_current + 1 >= 2)]

InMemorySessionsRepo_inc_attempt(ss, session_id) ==
    [ss EXCEPT ![session_id].attempts_current = @ + 1]

FirestoreSessionsRepo_inc_attempt(ss, session_id) == ss

inc_attempt(st, ss, session_id) ==
    IF st = "memory" THEN InMemorySessionsRepo_inc_attempt(ss, session_id)
    ELSE FirestoreSessionsRepo_inc_attempt(ss, session_id)

InMemorySessionsRepo_mark_finished(ss, session_id) ==
    [ss EXCEPT ![session_id].finished = TRUE]

\* FirestoreRepository.finish_session(session_id, True, 1.0), the session document
finish_session(ss, session_id) ==
    [ss EXCEPT ![session_id].finished = TRUE, ![session_id].success = "True"]

mark_finished(st, ss, session_id) ==
    IF st = "memory" THEN InMemorySessionsRepo_mark_finished(ss, session_id)
    ELSE finish_session(ss, session_id)

\* an add_to_conversation over one history list that every session shares
add_to_conversation_Shared(ss, session_id, role, message, type, attempt) ==
    [sid \in 1..Len(ss) |->
        [ss[sid] EXCEPT !.conversation_history =
            Append(@, [role |-> role, message |-> message, type |-> type,
                       attempt |-> attempt])]]

\* both stores append the entry (the ArrayUnion element carries a timestamp)
add_to_conversation(ss, session_id, role, message, type, attempt) ==
    [ss EXCEPT ![session_id].conversation_history =
        Append(@, [role |-> role, message |-> message, type |-> type,
                   attempt |-> attempt])]

InMemorySessionsRepo_add_learning_insight(ss, session_id, insight) ==
    [ss EXCEPT ![session_id].learning_insights =
        Append(@, [insight |-> insight, confidence |-> 10])]

FirestoreSessionsRepo_add_learning_insight(ss, session_id, insight) == ss

add_learning_insight(st, ss, session_id, insight) ==
    IF st = "memory" THEN InMemorySessionsRepo_add_learning_insight(ss, session_id, insight)
    ELSE FirestoreSessionsRepo_add_learning_insight(ss, session_id, insight)

\* a loop body that stamps first_seen at every recording
RecordOne_Restamp(m, tag, confidence, now) ==
    LET old == IF tag \in DOMAIN m THEN m[tag]
               ELSE [count |-> 0, first_seen |-> now, last_seen |-> now,
                     confidence_scores |-> <<>>]
        new == [count |-> old.count + 1, first_seen |-> now, last_seen |-> now,
                confidence_scores |-> Append(old.confidence_scores, confidence)]
    IN  [t \in DOMAIN m \cup {tag} |-> IF t = tag THEN new ELSE m[t]]

\* one tag: initialise its entry with count 0 and the time of the call, then
\* count it, set last_seen and append the score.  now is the clock reading
RecordOne(m, tag, confidence, now) ==
    LET old == IF tag \in DOMAIN m THEN m[tag]
               ELSE [count |-> 0, first_seen |-> now, last_seen |-> now,
                     confidence_scores |-> <<>>]
        new == [count |-> old.count + 1, first_seen |-> old.first_seen, last_seen |-> now,
                confidence_scores |-> Append(old.confidence_scores, confidence)]
    IN  [t \in DOMAIN m \cup {tag} |-> IF t = tag THEN new ELSE m[t]]

RECURSIVE RecordAll(_, _, _, _)
RecordAll(m, tags, confidence, now) ==
    IF tags = <<>> THEN m
    ELSE RecordAll(RecordOne(m, Head(tags), confidence, now), Tail(tags), confidence, now)

\* the same loop in InMemorySessionsRepo and in FirestoreRepository
record_misconceptions(ss, session_id, misconception_tags, confidence, now) ==
    [ss EXCEPT ![session_id].misconceptions = RecordAll(@, misconception_tags, confidence, now)]

RECURSIVE SumSeq(_)
SumSeq(q) == IF q = <<>> THEN 0 ELSE Head(q) + SumSeq(Tail(q))

\* the outcome of a division by len(confidence_scores) = 0
ZeroDivisionError == [error |-> "ZeroDivisionError"]

\* get_misconception_summary: per tag the count and the average confidence,
\* kept as the fraction sum / len
get_misconception_summary(ss, session_id) ==
    LET misconceptions == ss[session_id].misconceptions
    IN  IF \E tag \in DOMAIN misconceptions : Len(misconceptions[tag].confidence_scores) = 0
        THEN ZeroDivisionError
        ELSE [tag \in DOMAIN misconceptions |->
                 [count |-> misconceptions[tag].count,
                  avg_confidence |-> [sum |-> SumSeq(misconceptions[tag].confidence_scores),
                                      len |-> Len(misconceptions[tag].confidence_scores)]]]

(***************************************************************************)
(* The learner profiles (InMemoryProfilesRepo, FirestoreProfilesRepo).     *)
(* A learner id is one of a registered learner: the in-memory store makes  *)
(* the profile on first use, the Firestore store holds its document.       *)
(* current_session_id 0 is None.                                           *)
(***************************************************************************)
NewProfile == [xp |-> 0, completed_items |-> <<>>, current_session_id |-> 0]

\* a get_profile that answers from a copy read before the step's writes
get_profile_Stale(ps, learner_id) == profiles[learner_id]

\* get_profile of a registered learner: the stored profile as it is now
get_profile(ps, learner_id) == ps[learner_id]

add_xp(ps, learner_id, amount) ==
    [ps EXCEPT ![learner_id].xp = @ + amount]

\* a mark_item_completed that appends without the membership test
mark_item_completed_Append(ps, learner_id, item_id) ==
    [ps EXCEPT ![learner_id].completed_items = Append(@, item_id)]

mark_item_completed(ps, learner_id, item_id) ==
    IF item_id \in Range(ps[learner_id].completed_items) THEN ps
    ELSE [ps EXCEPT ![learner_id].completed_items = Append(@, item_id)]

set_current_session(ps, learner_id, session_id) ==
    [ps EXCEPT ![learner_id].current_session_id = session_id]

clear_current_session(ps, learner_id) ==
    [ps EXCEPT ![learner_id].current_session_id = 0]

\* FirestoreProfilesRepo._extract_subject_from_item_id raises ValueError
SubjectLookupFails(item_id) ==
    LET question == get_question(item_id)
    IN  question.id = None \/ question.topic \in {Absent, ""}

(***************************************************************************)
(* The session router (routers/v1/session.py).                             *)
(***************************************************************************)
\* the response of the handler that returned last.  status is the HTTP status;
\* the fields a response does not carry are Absent (-1 for xp_earned)
Response(op, status, session_id, correctness, finished, hint, tutor_message, ai_error, next_item_id, xp_earned, body_status) ==
    [op |-> op, status |-> status, session_id |-> session_id,
     correctness |-> correctness, finished |-> finished, hint |-> hint,
     tutor_message |-> tutor_message, ai_error |-> ai_error,
     next_item_id |-> next_item_id, xp_earned |-> xp_earned,
     body_status |-> body_status]

\* HTTPException(status_code) or an exception that escapes the handler (500)
ErrorResponse(op, status, session_id) ==
    Response(op, status, session_id, Absent, Absent, Absent, Absent, Absent, Absent, -1,
             Absent)

NoResponse == ErrorResponse("none", 0, 0)

\* a do_step whose table has the bases of Medium and Hard exchanged
BaseXp_Swapped(complexity) ==
    CASE complexity = "Easy" -> 10
      [] complexity = "Medium" -> 20
      [] complexity = "Hard" -> 15
      [] OTHER -> 10

\* base_xp of do_step
BaseXp(complexity) ==
    CASE complexity = "Easy" -> 10
      [] complexity = "Medium" -> 15
      [] complexity = "Hard" -> 20
      [] OTHER -> 10

\* total_xp of do_step: item.get("complexity", "Easy"), item.get("marks", 1)
TotalXp(item) ==
    BaseXp(Get(item.complexity, "Easy")) * (IF item.marks = -1 THEN 1 ELSE item.marks)

\* item.get("telemetry", {}).get("scoring", {}).get("xp", 10)
XpEarned(item) == IF item.telemetry_xp = -1 THEN 10 ELSE item.telemetry_xp

\* _extract_topic_from_item_id: the topic field of the cached item, else the
\* topic inferred from the id's keywords, else None for HTTPException(400)
_extract_topic_from_item_id(item_id) ==
    LET question == get_item(item_id)
    IN  IF question.id # None THEN Get(question.topic, "")
        ELSE IF item_id = SubtopicId THEN "algebra"
        ELSE get_question(item_id).id_keyword

\* _extract_subtopic_from_item_id: every id of the model holds a hyphen, and
\* the ids that start with a topic prefix are those of the cached catalog
_extract_subtopic_from_item_id(item_id) ==
    IF item_id \notin CachedIds THEN Lower(item_id) ELSE None

\* start_session: its first statement calls get_curriculum_service, a name
\* session.py neither imports nor defines, so the call raises NameError and
\* the request is answered 500 before any lookup
Start(learner_id, item_id) ==
    /\ nreq < MaxRequests
    /\ nreq' = nreq + 1
    /\ resp' = ErrorResponse("start", 500, 0)
    /\ UNCHANGED <<cache, pg, store, llm, sessions, profiles, calls, ends, ev>>

\* start_adaptive_session.  The system entry it adds to the conversation
\* carries the progress counts of get_progression_status, kept here as text
StartAdaptive(learner_id, req_item_id) ==
    /\ nreq < MaxRequests
    /\ nreq' = nreq + 1
    /\ LET completed_items == profiles[learner_id].completed_items
           topic_name == _extract_topic_from_item_id(req_item_id)
           subtopic_filter == _extract_subtopic_from_item_id(req_item_id)
           item_id == IF topic_name # None /\ subtopic_filter # None
                      THEN recommend_next_session(completed_items, topic_name,
                                                  subtopic_filter)
                      ELSE req_item_id
           item == get_item(item_id)
           sid == Len(sessions) + 1
           s1 == create_session(store, sessions, learner_id, item_id)
       IN  IF topic_name = None
           THEN /\ resp' = ErrorResponse("start_adaptive", 400, 0)
                /\ UNCHANGED <<sessions, profiles>>
           ELSE IF item_id = None \/ item.id = None
           THEN /\ resp' = ErrorResponse("start_adaptive", 404, 0)
                /\ UNCHANGED <<sessions, profiles>>
           ELSE /\ sessions' = add_to_conversation(s1, sid, "system", "Starting session",
                                                   Absent, 0)
                /\ profiles' = set_current_session(profiles, learner_id, sid)
                /\ resp' = Response("start_adaptive", 200, sid, Absent, Absent, Absent,
                                    Absent, Absent, item_id, -1, Absent)
    /\ UNCHANGED <<cache, pg, store, llm, calls, ends, ev>>

\* get_session
Resume(session_id) ==
    /\ nreq < MaxRequests
    /\ nreq' = nreq + 1
    /\ resp' = IF ~Exists(sessions, session_id) THEN ErrorResponse("resume", 404, session_id)
               ELSE IF get_item(sessions[session_id].item_id).id = None
                    THEN ErrorResponse("resume", 404, session_id)
                    ELSE Response("resume", 200, session_id, Absent, Absent, Absent,
                                  Absent, Absent, Absent, -1, Absent)
    /\ UNCHANGED <<cache, pg, store, llm, sessions, profiles, calls, ends, ev>>

\* an end_session that answers "already_ended" once the session was ended
End_Once(session_id) ==
    /\ nreq < MaxRequests
    /\ nreq' = nreq + 1
    /\ resp' = IF ~Exists(sessions, session_id) THEN ErrorResponse("end", 404, session_id)
               ELSE Response("end", 200, session_id, Absent, Absent, Absent, Absent,
                             Absent, Absent, -1,
                             IF ends[session_id] > 0 THEN "already_ended" ELSE "ended")
    /\ ends' = IF ~Exists(sessions, session_id) THEN ends
               ELSE [ends EXCEPT ![session_id] = @ + 1]
    /\ UNCHANGED <<cache, pg, store, llm, sessions, profiles, calls, ev>>

\* end_session.  ends is history, not program state: the number of end
\* requests each session has answered
End(session_id) ==
    /\ nreq < MaxRequests
    /\ nreq' = nreq + 1
    /\ resp' = IF ~Exists(sessions, session_id) THEN ErrorResponse("end", 404, session_id)
               ELSE Response("end", 200, session_id, Absent, Absent, Absent, Absent,
                             Absent, Absent, -1, "ended")
    /\ ends' = IF ~Exists(sessions, session_id) THEN ends
               ELSE [ends EXCEPT ![session_id] = @ + 1]
    /\ UNCHANGED <<cache, pg, store, llm, sessions, profiles, calls, ev>>

\* a do_step that never takes the already-finished path
AlreadyFinished_Never(session) == FALSE

\* the finished check of do_step: session.get("finished", False)
AlreadyFinished(session) == session.finished

\* do_step up to the judge request: the lookups, the finished check, the
\* student's entry in the conversation; the call then waits for the judge
StepBegin(session_id, user_response) ==
    /\ nreq < MaxRequests
    /\ nreq' = nreq + 1
    /\ IF ~Exists(sessions, session_id)
       THEN /\ resp' = ErrorResponse("step", 404, session_id)
            /\ UNCHANGED <<sessions, calls>>
       ELSE LET session == sessions[session_id] IN
            IF AlreadyFinished(session)
            THEN /\ resp' = Response("step", 200, session_id, "True", "True", None, Absent,
                                     Absent, Absent, -1, Absent)
                 /\ UNCHANGED <<sessions, calls>>
            ELSE /\ sessions' = add_to_conversation(sessions, session_id, "student",
                                    user_response, Absent, session.attempts_current + 1)
                 /\ calls' = calls \cup
                        {[rid |-> nreq + 1, session_id |-> session_id,
                          user_response |-> user_response,
                          attempts_so_far |-> session.attempts_current]}
                 /\ UNCHANGED resp
    /\ UNCHANGED <<cache, pg, store, llm, profiles, ends, ev>>

\* do_step from the evaluation on, for the call c and the judge's reply.
\* The repository calls run in the order of the code; an exception keeps the
\* effects of the calls made before it.
StepComplete(c, reply) ==
    LET sid == c.session_id
        session == sessions[sid]
        learner_id == session.learner_id
        item_id == session.item_id
        item == get_item(item_id)
        e == evaluate_simplified(llm, reply, c.attempts_so_far)
        correctness == e.correctness
        learning_insight == Get(e.evaluation_data.learning_insight, "")
        \* the recording reads the clock; the request counter is the time here
        misconception_tags == e.evaluation_data.misconception_tags
        confidence_level == IF e.evaluation_data.confidence_level = -1 THEN 10
                            ELSE e.evaluation_data.confidence_level
        s1 == append_step(store, sessions, sid,
                          [response |-> c.user_response, correct |-> correctness])
        s2 == IF learning_insight # "" THEN add_learning_insight(store, s1, sid, learning_insight)
              ELSE s1
        s3 == IF misconception_tags # <<>>
              THEN record_misconceptions(s2, sid, misconception_tags, confidence_level, nreq)
              ELSE s2
        \* correctness is True
        tutor_response == IF e.next_prompt \in {None, ""} THEN "Great job!" ELSE e.next_prompt
        s4 == add_to_conversation(s3, sid, "tutor", tutor_response, "success", 0)
        s5 == mark_finished(store, s4, sid)
        \* finish_session clears the learner's pointer in the Firestore store
        p0 == IF store = "firestore" THEN clear_current_session(profiles, learner_id)
              ELSE profiles
        subject_fails == store = "firestore" /\ SubjectLookupFails(item_id)
        p1 == mark_item_completed(p0, learner_id, item_id)
        p2 == clear_current_session(p1, learner_id)
        total_xp == TotalXp(item)
        p3 == add_xp(p2, learner_id, total_xp)
        topic_name == _extract_topic_from_item_id(item_id)
        subtopic_filter == IF item.id # None THEN Get(item.subtopic, None) ELSE None
        learner_profile == get_profile(p3, learner_id)
        next_item_id == recommend_next_session(learner_profile.completed_items, topic_name,
                                               subtopic_filter)
        \* correctness is False
        tutor_hint == IF e.hint \in {None, ""} THEN "Let me help you think through this."
                      ELSE e.hint
        attempt == IF store = "memory" THEN session.attempts_current + 1
                   ELSE c.attempts_so_far + 1
        s6 == add_to_conversation(s3, sid, "tutor", tutor_hint, "hint", attempt)
        s7 == inc_attempt(store, s6, sid)
    IN  /\ c \in calls
        /\ calls' = calls \ {c}
        /\ IF correctness = None
           THEN /\ sessions' = s3
                /\ profiles' = profiles
                /\ resp' = Response("step", 200, sid, None, "False",
                               IF e.hint \in {None, ""}
                               THEN "Oops! Please try submitting it again!" ELSE e.hint,
                               "Please try again!",
                               Get(e.evaluation_data.error, "AI unavailable"),
                               Absent, -1, Absent)
           ELSE IF correctness = "True"
           THEN IF subject_fails
                THEN /\ sessions' = s5
                     /\ profiles' = p0
                     /\ resp' = ErrorResponse("step", 500, sid)
                ELSE IF topic_name = None
                THEN /\ sessions' = s5
                     /\ profiles' = p3
                     /\ resp' = ErrorResponse("step", 400, sid)
                ELSE /\ sessions' = s5
                     /\ profiles' = p3
                     /\ resp' = Response("step", 200, sid, "True", "True", None,
                                    "completed", Absent, next_item_id, XpEarned(item),
                                    Absent)
           ELSE /\ sessions' = s7
                /\ profiles' = profiles
                /\ resp' = Response("step", 200, sid, "False", "False", e.hint, e.hint,
                               Absent, Absent, -1, Absent)
        /\ UNCHANGED <<cache, pg, store, llm, nreq, ends, ev>>

(***************************************************************************)
(* The evaluator with the step-based contract: SimpleOrchestrator.evaluate *)
(* over GeminiLLM.evaluate_and_respond (services/llm.py).  The model's raw *)
(* answer is any element of ModelAnswers: a failed call, no text, text     *)
(* that is no JSON, or a JSON object with each field present or missing.   *)
(***************************************************************************)
Answer(kind, is_correct, response, should_advance, insight, tags, confidence) ==
    [kind |-> kind, is_correct |-> is_correct, response |-> response,
     should_advance |-> should_advance, learning_insight |-> insight,
     misconception_tags |-> tags, confidence_level |-> confidence]

\* misconception_tags <<"absent">> is a missing key; confidence 15 is 1.5
ModelAnswers ==
    {Answer(k, Absent, Absent, Absent, Absent, <<Absent>>, -1) :
        k \in {"raise", "notext", "nonjson"}}
    \cup {Answer("json", c, r, a, i, t, f) :
            c \in {"True", "False", Absent}, r \in {"txt", Absent},
            a \in {"True", "False", Absent}, i \in {"seen", Absent},
            t \in {<<Absent>>, <<>>, <<"sign_error">>}, f \in {-1, 8, 15}}

\* the fallback response of evaluate_and_respond: it holds three keys only
FallbackAnswer(text) ==
    Answer("json", "False", text, "False", Absent, <<Absent>>, -1)

evaluate_and_respond(answer) ==
    IF answer.kind = "raise" THEN FallbackAnswer("I'm having trouble right now.")
    ELSE IF answer.kind \in {"notext", "nonjson"}
         THEN FallbackAnswer("Let me help you think through this step by step.")
    ELSE IF Absent \in {answer.is_correct, answer.response, answer.should_advance}
         THEN FallbackAnswer("Let me help you think through this step by step.")
    ELSE [answer EXCEPT !.learning_insight = Get(@, ""),
                        !.misconception_tags = IF @ = <<Absent>> THEN <<>> ELSE @,
                        !.confidence_level = IF @ = -1 THEN 10 ELSE @]

\* the session handed to evaluate as context, after the call: evaluate appends to
\* the list it got from session.get("learning_insights", [])
SessionAfterEvaluate(llm_configured, session) ==
    IF llm_configured /\ DOMAIN session.misconceptions # {}
    THEN [session EXCEPT !.learning_insights =
              Append(@, [insight |-> "Past misconceptions", confidence |-> 10])]
    ELSE session

\* evaluate returns None, not a dict, as its fourth value when no judge is
\* configured: that is EvaluationData with every key absent and error "None"
evaluate(llm_configured, answer, attempts_so_far) ==
    IF ~llm_configured
    THEN Evaluation(None, None, "I need to think about this. Let's try again.",
                    EvaluationData(Absent, <<>>, -1, None))
    ELSE LET ai_response == evaluate_and_respond(answer)
             is_correct == Get(ai_response.is_correct, "False")
             response_text == Get(ai_response.response, "Let's try again.")
             should_advance == Get(ai_response.should_advance, "False")
             result == EvaluationData(Get(ai_response.learning_insight, ""),
                           IF ai_response.misconception_tags = <<Absent>> THEN <<>>
                           ELSE ai_response.misconception_tags,
                           IF ai_response.confidence_level = -1 THEN 10
                           ELSE ai_response.confidence_level,
                           Absent)
         IN  IF is_correct = "True" /\ should_advance = "True"
             THEN Evaluation("True", response_text, None, result)
             ELSE Evaluation(None, None, response_text, result)

(***************************************************************************)
(* The evaluator checked alone: ev holds one call of evaluate_simplified   *)
(* or evaluate, its inputs, and once it has run its result and the session *)
(* record it was handed; phase "recorded" follows the recording of the     *)
(* result's misconception tags in that session.                            *)
(***************************************************************************)
ContextSessions ==
    {[learner_id |-> "L1", item_id |-> "ALGEBRA-INTRO-Q1", steps |-> <<>>,
      conversation_history |-> <<>>, current_step_idx |-> 0, attempts_current |-> 0,
      hints_used |-> 0, finished |-> FALSE, success |-> Absent,
      learning_insights |-> <<>>, misconceptions |-> m] :
        m \in {<<>>, RecordOne(<<>>, "sign_error", 8, 1)}}

NoReply == Reply("none", Absent, Absent, Absent)

NoAnswer == Answer("none", Absent, Absent, Absent, Absent, <<Absent>>, -1)

NoEvaluation == Evaluation(Absent, Absent, Absent, EvaluationData(Absent, <<>>, -1, Absent))

EvalCall(fn, phase, llm_configured, reply, answer, attempts, session, out) ==
    [fn |-> fn, phase |-> phase, llm |-> llm_configured, reply |-> reply,
     answer |-> answer, attempts_so_far |-> attempts, session |-> session, out |-> out]

NoEvalCall ==
    EvalCall("none", "idle", FALSE, NoReply, NoAnswer, 0,
             CHOOSE s \in ContextSessions : s.misconceptions = <<>>, NoEvaluation)

EvalInputs ==
    {EvalCall("evaluate_simplified", "input", l, r, NoAnswer, n, s, NoEvaluation) :
        l \in BOOLEAN, r \in JudgeReplies, n \in 0..MaxAttempts, s \in ContextSessions}
    \cup
    {EvalCall("evaluate", "input", l, NoReply, a, n, s, NoEvaluation) :
        l \in BOOLEAN, a \in ModelAnswers, n \in 0..MaxAttempts, s \in ContextSessions}

RunEvaluateSimplified ==
    /\ ev.phase = "input" /\ ev.fn = "evaluate_simplified"
    /\ ev' = [ev EXCEPT !.phase = "done",
                        !.out = evaluate_simplified(ev.llm, ev.reply, ev.attempts_so_far)]
    /\ UNCHANGED <<cache, pg, store, llm, sessions, profiles, calls, nreq, resp, ends>>

RunEvaluate ==
    /\ ev.phase = "input" /\ ev.fn = "evaluate"
    /\ ev' = [ev EXCEPT !.phase = "done",
                        !.out = evaluate(ev.llm, ev.answer, ev.attempts_so_far),
                        !.session = SessionAfterEvaluate(ev.llm, ev.session)]
    /\ UNCHANGED <<cache, pg, store, llm, sessions, profiles, calls, nreq, resp, ends>>

\* the recording block of do_step applied to the evaluator's result and the
\* context session: the tags are recorded with the confidence level the
\* evaluator returned, 1.0 when it returned none
RecordMisconceptions ==
    /\ ev.phase = "done"
    /\ LET misconception_tags == ev.out.evaluation_data.misconception_tags
           confidence_level == IF ev.out.evaluation_data.confidence_level = -1 THEN 10
                               ELSE ev.out.evaluation_data.confidence_level
       IN  ev' = [ev EXCEPT !.phase = "recorded",
                            !.session = IF misconception_tags # <<>>
                                        THEN record_misconceptions(<<ev.session>>, 1,
                                                 misconception_tags, confidence_level,
                                                 MaxTime)[1]
                                        ELSE ev.session]
    /\ UNCHANGED <<cache, pg, store, llm, sessions, profiles, calls, nreq, resp, ends>>

(***************************************************************************)
(* The progression service checked alone: pg holds one call, its inputs    *)
(* and once it has run its result.                                         *)
(***************************************************************************)
ProgCall(fn, phase, topic_name, subtopic_filter, current_item_id, completed_items, label, out) ==
    [fn |-> fn, phase |-> phase, topic_name |-> topic_name,
     subtopic_filter |-> subtopic_filter, current_item_id |-> current_item_id,
     completed_items |-> completed_items, label |-> label, out |-> out]

NoProgCall == ProgCall("none", "idle", "", None, "", <<>>, NoLabel, None)

\* the sequences of at most n elements of S, none twice
RECURSIVE SeqsNoRep(_, _)
SeqsNoRep(S, n) ==
    IF n = 0 THEN {<<>>}
    ELSE LET shorter == SeqsNoRep(S, n - 1)
         IN  shorter \cup UNION {{Append(q, x) : x \in S \ Range(q)} :
                                     q \in {t \in shorter : Len(t) = n - 1}}

ProgCaches == SeqsNoRep(ProgItems, MaxCatalog)

\* the sub_topic labels handed to _extract_subtopic_order
Labels ==
    {NoLabel}
    \cup {Numeral(major, minor, 1) : major \in 0..MaxMajor, minor \in 0..9}
    \cup {Numeral(major, minor, 2) : major \in 0..MaxMajor, minor \in 0..MaxMinor}
    \cup {Label("integer", major, 0, 0, d, "") : major \in 0..MaxMajor, d \in BOOLEAN}
    \cup {Label(k, 0, 0, 0, d, "") : k \in {"word", "inf"}, d \in BOOLEAN}

ProgInput(fn, topic_name, subtopic_filter, current_item_id, completed_items, label) ==
    ProgCall(fn, "input", topic_name, subtopic_filter, current_item_id, completed_items, label, None)

\* the calls a cache is handed
ProgInputs(c) ==
    LET ids == {c[i].id : i \in 1..Len(c)}
        scan_ids == {it.id : it \in ScanItems}
        completed == SeqsNoRep(scan_ids, MaxCompleted)
    IN  {ProgInput("_discover_topic_items", t, None, "", <<>>, NoLabel) :
            t \in {"algebra", "Algebra", "ratio", "fractions"}}
        \cup {ProgInput("get_topic_progression", t, f, "", <<>>, NoLabel) :
                t \in {"algebra", "ratio"}, f \in {None, "simp", "SIMP"}}
        \cup (IF c = <<>>
              THEN {ProgInput("_extract_subtopic_order", "", None, "", <<>>, l) : l \in Labels}
              ELSE {})
        \cup (IF ids \subseteq scan_ids
              THEN {ProgInput("get_next_item_id", "algebra", f, cur, done, NoLabel) :
                       f \in {None, "simp"}, cur \in scan_ids \cup {""}, done \in completed}
                   \cup {ProgInput("recommend_next_session", t, f, "", done, NoLabel) :
                       t \in {"algebra", "ratio"}, f \in {None, "simp"}, done \in completed}
                   \cup {ProgInput("get_progression_status", t, None, "", done, NoLabel) :
                       t \in {"algebra", "ratio"}, done \in completed}
              ELSE {})

Ids(items) == [i \in 1..Len(items) |-> items[i].id]

RunSubtopicOrder ==
    /\ pg.phase = "input" /\ pg.fn = "_extract_subtopic_order"
    /\ pg' = [pg EXCEPT !.phase = "done", !.out = _extract_subtopic_order(pg.label)]
    /\ UNCHANGED <<cache, store, llm, sessions, profiles, calls, nreq, resp, ends, ev>>

RunDiscoverTopicItems ==
    /\ pg.phase = "input" /\ pg.fn = "_discover_topic_items"
    /\ pg' = [pg EXCEPT !.phase = "done", !.out = Ids(_discover_topic_items(pg.topic_name))]
    /\ UNCHANGED <<cache, store, llm, sessions, profiles, calls, nreq, resp, ends, ev>>

RunTopicProgression ==
    /\ pg.phase = "input" /\ pg.fn = "get_topic_progression"
    /\ pg' = [pg EXCEPT !.phase = "done",
                        !.out = get_topic_progression(pg.topic_name, pg.subtopic_filter)]
    /\ UNCHANGED <<cache, store, llm, sessions, profiles, calls, nreq, resp, ends, ev>>

RunNextItemId ==
    /\ pg.phase = "input" /\ pg.fn = "get_next_item_id"
    /\ pg' = [pg EXCEPT !.phase = "done",
                        !.out = get_next_item_id(pg.current_item_id, pg.completed_items,
                                                 pg.topic_name, pg.subtopic_filter)]
    /\ UNCHANGED <<cache, store, llm, sessions, profiles, calls, nreq, resp, ends, ev>>

RunRecommendNextSession ==
    /\ pg.phase = "input" /\ pg.fn = "recommend_next_session"
    /\ pg' = [pg EXCEPT !.phase = "done",
                        !.out = recommend_next_session(pg.completed_items, pg.topic_name,
                                                       pg.subtopic_filter)]
    /\ UNCHANGED <<cache, store, llm, sessions, profiles, calls, nreq, resp, ends, ev>>

RunProgressionStatus ==
    /\ pg.phase = "input" /\ pg.fn = "get_progression_status"
    /\ pg' = [pg EXCEPT !.phase = "done",
                        !.out = get_progression_status(pg.completed_items, pg.topic_name)]
    /\ UNCHANGED <<cache, store, llm, sessions, profiles, calls, nreq, resp, ends, ev>>

(***************************************************************************)
(* The specifications.  Spec is the session API over either store, with    *)
(* or without a configured judge.  SpecEval runs the evaluator alone,      *)
(* SpecProg the progression service alone over the caches of ProgCaches.   *)
(***************************************************************************)
\* the session documents an earlier process left in the Firestore store: none,
\* or one unfinished session of L1 on a question this process's cache lacks
PersistedSessions ==
    {<<>>, create_session("firestore", <<>>, "L1", "NEW-Q1")}

Init ==
    /\ store \in {"memory", "firestore"}
    /\ llm \in BOOLEAN
    /\ sessions \in IF store = "firestore" THEN PersistedSessions ELSE {<<>>}
    /\ profiles = [l \in Learners |->
                      IF l = "L1" /\ sessions # <<>>
                      THEN [NewProfile EXCEPT !.current_session_id = 1]
                      ELSE NewProfile]
    /\ calls = {}
    /\ nreq = 0
    /\ resp = NoResponse
    /\ ends = [sid \in 1..(MaxRequests + 1) |-> 0]
    /\ ev = NoEvalCall
    /\ cache = CatalogItems
    /\ pg = NoProgCall

\* the session ids a request can name: those of the store and one of no session
RequestSessionIds == 1..(Len(sessions) + 1)

Next ==
    \/ \E l \in Learners, i \in RequestItemIds : Start(l, i)
    \/ \E l \in Learners, i \in RequestItemIds : StartAdaptive(l, i)
    \/ \E sid \in RequestSessionIds : Resume(sid)
    \/ \E sid \in RequestSessionIds : End(sid)
    \/ \E sid \in RequestSessionIds, u \in UserResponses : StepBegin(sid, u)
    \/ \E c \in calls, r \in StepReplies : StepComplete(c, r)

Spec == Init /\ [][Next]_vars

InitEval ==
    /\ store = "memory"
    /\ llm = TRUE
    /\ sessions = <<>>
    /\ profiles = [l \in Learners |-> NewProfile]
    /\ calls = {}
    /\ nreq = 0
    /\ resp = NoResponse
    /\ ends = [sid \in 1..(MaxRequests + 1) |-> 0]
    /\ ev \in EvalInputs
    /\ cache = CatalogItems
    /\ pg = NoProgCall

NextEval == RunEvaluateSimplified \/ RunEvaluate \/ RecordMisconceptions

SpecEval == InitEval /\ [][NextEval]_vars

InitProg ==
    /\ store = "memory"
    /\ llm = TRUE
    /\ sessions = <<>>
    /\ profiles = [l \in Learners |-> NewProfile]
    /\ calls = {}
    /\ nreq = 0
    /\ resp = NoResponse
    /\ ends = [sid \in 1..(MaxRequests + 1) |-> 0]
    /\ ev = NoEvalCall
    /\ cache \in ProgCaches
    /\ pg \in ProgInputs(cache)

NextProg ==
    \/ RunSubtopicOrder
    \/ RunDiscoverTopicItems
    \/ RunTopicProgression
    \/ RunNextItemId
    \/ RunRecommendNextSession
    \/ RunProgressionStatus

SpecProg == InitProg /\ [][NextProg]_vars

(***************************************************************************)
(* The session API driven by a sequential client: a request is sent only   *)
(* once every earlier request has been answered, so at most one step call  *)
(* is with the judge at any time.                                          *)
(***************************************************************************)
NextSeq ==
    \/ \E l \in Learners, i \in RequestItemIds : calls = {} /\ Start(l, i)
    \/ \E l \in Learners, i \in RequestItemIds : calls = {} /\ StartAdaptive(l, i)
    \/ \E sid \in RequestSessionIds : calls = {} /\ Resume(sid)
    \/ \E sid \in RequestSessionIds : calls = {} /\ End(sid)
    \/ \E sid \in RequestSessionIds, u \in UserResponses : calls = {} /\ StepBegin(sid, u)
    \/ \E c \in calls, r \in StepReplies : StepComplete(c, r)

SpecSeq == Init /\ [][NextSeq]_vars

(***************************************************************************)
(* The misconception tracker checked alone: one session of either store,   *)
(* to which record_misconceptions is applied with any tag list, confidence *)
(* and clock reading (utcnow is not monotonic).                            *)
(***************************************************************************)
MisconceptionTags == {"sign_error", "combine_like_terms"}

\* the non-empty tag lists a recording is handed, a tag twice included
TagLists ==
    {<<t>> : t \in MisconceptionTags}
    \cup {<<t, u>> : t \in MisconceptionTags, u \in MisconceptionTags}

\* the confidences a recording is handed, in tenths
Confidences == {5, 10}

RECURSIVE Recorded(_)
Recorded(m) ==
    IF DOMAIN m = {} THEN 0
    ELSE LET tag == CHOOSE t \in DOMAIN m : TRUE
         IN  m[tag].count + Recorded([t \in DOMAIN m \ {tag} |-> m[t]])

RunRecordMisconceptions(session_id, misconception_tags, confidence, now) ==
    /\ Exists(sessions, session_id)
    /\ Recorded(sessions[session_id].misconceptions) + Len(misconception_tags) <= MaxRecorded
    /\ sessions' = record_misconceptions(sessions, session_id, misconception_tags,
                                         confidence, now)
    /\ UNCHANGED <<cache, pg, store, llm, profiles, calls, nreq, resp, ends, ev>>

InitTrack ==
    /\ store \in {"memory", "firestore"}
    /\ llm = TRUE
    /\ sessions = create_session(store, <<>>, "L1", "ALGEBRA-INTRO-Q1")
    /\ profiles = [l \in Learners |-> NewProfile]
    /\ calls = {}
    /\ nreq = 0
    /\ resp = NoResponse
    /\ ends = [sid \in 1..(MaxRequests + 1) |-> 0]
    /\ ev = NoEvalCall
    /\ cache = CatalogItems
    /\ pg = NoProgCall

NextTrack ==
    \E tags \in TagLists, confidence \in Confidences, now \in 1..MaxTime :
        RunRecordMisconceptions(1, tags, confidence, now)

SpecTrack == InitTrack /\ [][NextTrack]_vars

(***************************************************************************)
(* The properties.                                                         *)
(***************************************************************************)

\* C1: a retried correct step never credits twice.  In every state each
\* learner's XP is the sum of total_xp over that learner's finished
\* sessions, one credit a session, and the item of each finished session
\* occurs exactly once in the learner's completed items.
C1_RetryCreditsOnce ==
    \A l \in Learners :
        LET done == {sid \in 1..Len(sessions) :
                        sessions[sid].learner_id = l /\ sessions[sid].finished}
            completed == profiles[l].completed_items
            RECURSIVE Credit(_)
            Credit(S) ==
                IF S = {} THEN 0
                ELSE LET sid == CHOOSE x \in S : TRUE
                     IN  TotalXp(get_item(sessions[sid].item_id)) + Credit(S \ {sid})
        IN  /\ profiles[l].xp = Credit(done)
            /\ \A sid \in done :
                   Cardinality({i \in 1..Len(completed) :
                                   completed[i] = sessions[sid].item_id}) = 1

\* C2: no update of a session is lost.  Every step that got an incorrect
\* verdict left one hint entry in the conversation, so in every state the
\* attempts counter of a session equals the number of its hint entries
\* (the step path records no misconception tag).
C2_NoLostAttempt ==
    \A sid \in 1..Len(sessions) :
        LET log == sessions[sid].conversation_history
        IN  sessions[sid].attempts_current =
                Cardinality({i \in 1..Len(log) : log[i].type = "hint"})

\* C3: a step on a finished session answers correctness True, finished True
\* and changes neither the session store nor the profiles, nor does it ask
\* the judge.
C3_FinishedStepIsIdempotent ==
    [][\A sid \in 1..Len(sessions), u \in UserResponses :
          (sessions[sid].finished /\ StepBegin(sid, u)) =>
              /\ sessions' = sessions
              /\ profiles' = profiles
              /\ calls' = calls
              /\ resp'.op = "step" /\ resp'.status = 200
              /\ resp'.session_id = sid
              /\ resp'.correctness = "True" /\ resp'.finished = "True"]_vars

\* a step on a finished session has answered
C3_Witness ==
    /\ resp.op = "step" /\ resp.status = 200
    /\ resp.finished = "True" /\ resp.correctness = "True"
    /\ resp.tutor_message = Absent
    /\ sessions[resp.session_id].finished

C5_MalformedReplyIsUnknown ==
    LET malformed ==
            \/ /\ ev.fn = "evaluate_simplified"
               /\ \/ ev.reply.kind = "nonjson"
                  \/ /\ ev.reply.kind = "json"
                     /\ Absent \in {ev.reply.is_correct, ev.reply.feedback,
                                    ev.reply.should_advance}
            \/ /\ ev.fn = "evaluate"
               /\ \/ ev.answer.kind \in {"notext", "nonjson"}
                  \/ /\ ev.answer.kind = "json"
                     /\ Absent \in {ev.answer.is_correct, ev.answer.response,
                                    ev.answer.should_advance}
    IN  (ev.phase = "done" /\ ev.llm /\ malformed) =>
            /\ ev.out.correctness = None
            /\ ev.out.evaluation_data.error \notin {Absent, None}

\* C6: a step whose verdict is False adds exactly one to the attempts
\* counter, leaves finished False and answers with the hint as the tutor
\* message, in the in-memory store and in the Firestore store.
C6_FalseVerdictCountsAttempt ==
    [][\A c \in calls, r \in StepReplies :
          LET e == evaluate_simplified(llm, r, c.attempts_so_far)
              sid == c.session_id
          IN  (/\ calls' = calls \ {c}
               /\ e.correctness = "False"
               /\ ~sessions[sid].finished
               /\ StepComplete(c, r)) =>
                /\ sessions'[sid].attempts_current = sessions[sid].attempts_current + 1
                /\ ~sessions'[sid].finished
                /\ resp'.correctness = "False" /\ resp'.finished = "False"
                /\ resp'.tutor_message = e.hint]_vars

C9_EndMarksFinished ==
    \A sid \in 1..Len(sessions) : ends[sid] > 0 => sessions[sid].finished

\* C10: every end on an existing session answers "ended", and an end on a
\* session that was ended before leaves its finished and success fields as
\* they were.
C10_EndTwice ==
    [][\A sid \in 1..Len(sessions) :
          End(sid) =>
            /\ resp'.op = "end" /\ resp'.status = 200
            /\ resp'.body_status = "ended"
            /\ ends[sid] >= 1 =>
                  /\ sessions'[sid].finished = sessions[sid].finished
                  /\ sessions'[sid].success = sessions[sid].success]_vars

\* end has answered a second time for the same session
C10_Witness ==
    /\ resp.op = "end" /\ resp.status = 200 /\ resp.body_status = "ended"
    /\ ends[resp.session_id] >= 2

\* C11: a step on a session whose item the catalog does not hold is never
\* evaluated: no judge call is pending for a session whose item lookup
\* finds nothing.
C11_NoFabricatedItem ==
    \A c \in calls : get_item(sessions[c.session_id].item_id).id # None

\* C12: a finished session is immutable: no step of the system changes the
\* record of a session whose finished flag is set.
C12_FinishedIsImmutable ==
    [][\A sid \in 1..Len(sessions) :
          sessions[sid].finished => sessions'[sid] = sessions[sid]]_vars

\* C13: start with an item that exists creates a new unfinished session with
\* attempts 0 and an empty conversation for that learner and item, binds the
\* learner's pointer to it and answers with its id; with an item that does
\* not exist it creates nothing and leaves the pointer.
C13_StartCreatesSession ==
    [][\A l \in Learners, i \in RequestItemIds :
          Start(l, i) =>
            IF get_question(i).id # None
            THEN /\ Len(sessions') = Len(sessions) + 1
                 /\ LET new == sessions'[Len(sessions')]
                    IN  /\ new.learner_id = l /\ new.item_id = i
                        /\ ~new.finished /\ new.attempts_current = 0
                        /\ new.conversation_history = <<>>
                 /\ profiles'[l].current_session_id = Len(sessions')
                 /\ resp'.status = 200 /\ resp'.session_id = Len(sessions')
            ELSE sessions' = sessions /\ profiles' = profiles]_vars

\* C14: finished is set only by a step with the verdict True or by end; a
\* step with the verdict False or unknown leaves finished as it was, and a
\* step on an unfinished session is taken whatever its attempts counter is.
C14_NoAttemptCap ==
    [][/\ \A sid \in 1..Len(sessions) :
             (~sessions[sid].finished /\ sessions'[sid].finished) =>
                 \/ End(sid)
                 \/ \E c \in calls, r \in StepReplies :
                       /\ c.session_id = sid
                       /\ evaluate_simplified(llm, r, c.attempts_so_far).correctness = "True"
                       /\ StepComplete(c, r)
       /\ \A c \in calls :
             calls' = calls \ {c} =>
                 \/ sessions'[c.session_id].finished = sessions[c.session_id].finished
                 \/ \A r \in StepReplies :
                       ~(/\ evaluate_simplified(llm, r, c.attempts_so_far).correctness # "True"
                         /\ StepComplete(c, r))
       /\ \A sid \in 1..Len(sessions), u \in UserResponses :
             (~sessions[sid].finished /\ resp' = resp) =>
                 \/ /\ Cardinality(calls') = Cardinality(calls) + 1
                    /\ ~sessions'[sid].finished
                 \/ ~StepBegin(sid, u)]_vars

\* a session that has counted two failed attempts is still in progress
C14_Witness ==
    \E sid \in 1..Len(sessions) :
        /\ ~sessions[sid].finished
        /\ sessions[sid].attempts_current >= 2

\* C15: the answer to a correct step names a next item of the completed
\* item's topic and subtopic that the learner has not completed, or names
\* none; it names none only when the learner has completed every item of
\* that topic and subtopic.
C15_RecommendationInScope ==
    (resp.op = "step" /\ resp.status = 200 /\ resp.tutor_message = "completed") =>
        LET session == sessions[resp.session_id]
            item == get_item(session.item_id)
            completed == Range(profiles[session.learner_id].completed_items)
            scope == {CatalogItems[i].id : i \in
                         {j \in 1..Len(CatalogItems) :
                             /\ CatalogItems[j].topic = item.topic
                             /\ CatalogItems[j].subtopic = item.subtopic}}
        IN  IF resp.next_item_id = None
            THEN scope \subseteq completed
            ELSE resp.next_item_id \in scope \ completed

\* C16: the recommendation of a correct step is computed from the profile as
\* the step has written it: the answer never names the item just completed,
\* and after the step the profile holds the item and no current session.
C16_ReadAfterWrite ==
    [][\A c \in calls, r \in StepReplies :
          LET sid == c.session_id
              l == sessions[sid].learner_id
              item_id == sessions[sid].item_id
          IN  (/\ calls' = calls \ {c}
               /\ resp'.status = 200
               /\ evaluate_simplified(llm, r, c.attempts_so_far).correctness = "True"
               /\ StepComplete(c, r)) =>
                  /\ resp'.next_item_id # item_id
                  /\ resp'.next_item_id \notin Range(profiles'[l].completed_items)
                  /\ item_id \in Range(profiles'[l].completed_items)
                  /\ profiles'[l].current_session_id = 0]_vars

\* a correct step on the first item of its subtopic has named the second
C16_Witness ==
    /\ resp.op = "step" /\ resp.status = 200 /\ resp.tutor_message = "completed"
    /\ sessions[resp.session_id].item_id = "ALGEBRA-INTRO-Q1"
    /\ resp.next_item_id = "ALGEBRA-INTRO-Q2"

\* C17: the evaluator leaves the session record it is handed as context as
\* it was: after the call the record is one of the records handed in.
C17_EvaluationIsPure ==
    ev.phase = "done" => ev.session \in ContextSessions

\* C18: a step that submits the item's accepted answer is answered with
\* correctness True, whatever the judge replies and with or without a judge.
C18_AcceptedAnswerIsCorrect ==
    [][\A c \in calls, r \in StepReplies :
          LET item == get_item(sessions[c.session_id].item_id)
          IN  (/\ calls' = calls \ {c}
               /\ item.id # None
               /\ c.user_response = correct_answer(item)
               /\ StepComplete(c, r)) =>
                  resp'.correctness = "True"]_vars

\* C19: without a judge the hint returned for an item with hints at the
\* levels 1, 2, 3 is the hint of level min(3, attempts_so_far + 1).
C19_HintLadder ==
    (ev.phase = "done" /\ ~ev.llm /\ ev.attempts_so_far <= 3) =>
        LET item == get_item(ev.session.item_id)
            level == IF ev.attempts_so_far + 1 < 3 THEN ev.attempts_so_far + 1 ELSE 3
        IN  ev.out.hint = hints(item)[level]

\* C20: a response evaluated against an item without its answer fields is
\* never answered with an ordinary verdict True or False.
C20_MalformedItemIsError ==
    (resp.op = "step" /\ resp.session_id \in 1..Len(sessions)
        /\ correct_answer(get_item(sessions[resp.session_id].item_id)) = "") =>
        resp.correctness \notin {"True", "False"}

\* C21: recommend_next_session for a learner who has completed no item of the
\* progression of the topic and subtopic filter, whatever else they have
\* completed, returns the first item of that progression.
C21_NoneCompletedGivesFirst ==
    (pg.phase = "done" /\ pg.fn = "recommend_next_session") =>
        LET progression == get_topic_progression(pg.topic_name, pg.subtopic_filter)
        IN  (/\ progression # <<>>
             /\ Range(pg.completed_items) \cap Range(progression) = {}) =>
                pg.out = progression[1]

\* a learner who has completed an item of another subtopic only is
\* recommended the first item of the filtered progression
C21_Witness ==
    /\ pg.phase = "done" /\ pg.fn = "recommend_next_session"
    /\ pg.subtopic_filter = "simp"
    /\ pg.completed_items = <<"ALGEBRA-BASICS-Q1">>
    /\ "ALGEBRA-BASICS-Q1" \in CachedIds
    /\ pg.out = "ALGEBRA-SIMP-Q1"

C23_NextItemIsFirstUncompletedAfter ==
    (pg.phase = "done" /\ pg.fn = "get_next_item_id") =>
        LET progression == get_topic_progression(pg.topic_name, pg.subtopic_filter)
            start == IF pg.current_item_id \in Range(progression)
                     THEN IndexOf(progression, pg.current_item_id) + 1
                     ELSE 1
            open == {i \in start..Len(progression) :
                        progression[i] \notin Range(pg.completed_items)}
        IN  IF open = {} THEN pg.out = None
            ELSE pg.out = progression[CHOOSE i \in open : \A j \in open : i <= j]

\* the scan from the first item of three passes over the completed second
\* item and returns the third
C23_Witness ==
    /\ pg.phase = "done" /\ pg.fn = "get_next_item_id"
    /\ pg.subtopic_filter = None
    /\ pg.current_item_id = "ALGEBRA-BASICS-Q1"
    /\ pg.completed_items = <<"ALGEBRA-SIMP-Q1">>
    /\ get_topic_progression(pg.topic_name, None)
           = <<"ALGEBRA-BASICS-Q1", "ALGEBRA-SIMP-Q1", "ALGEBRA-SIMP-Q2">>
    /\ pg.out = "ALGEBRA-SIMP-Q2"

\* C24: every progression is sorted ascending on (subtopicOrder,
\* questionNumber, difficulty), subtopicOrder being major*10+minor of the
\* label's numeral "major.minor" and 0 without one: an item under "1.1 ..."
\* comes before every item under "1.2 ...", those before every item under
\* "2.1 ...", and within one subtopic -Q1 comes before -Q2.
C24_ProgressionIsSorted ==
    (pg.phase = "done" /\ pg.fn = "get_topic_progression") =>
        LET subtopicOrder(l) == IF l.kind = "decimal" THEN l.major * 10 + l.minor ELSE 0
            key(id) == << subtopicOrder(get_item(id).sub_topic),
                          get_item(id).question_num,
                          Difficulty(get_item(id).complexity) >>
            less(a, b) == \/ a[1] < b[1]
                          \/ a[1] = b[1] /\ a[2] < b[2]
                          \/ a[1] = b[1] /\ a[2] = b[2] /\ a[3] < b[3]
        IN  \A i, j \in 1..Len(pg.out) :
                i < j => ~less(key(pg.out[j]), key(pg.out[i]))

\* C25: the order of a progression is total: two items that agree on
\* (subtopicOrder, questionNumber, difficulty) stand in the order of their
\* ids, so that the progression does not depend on the order in which the
\* catalog enumerates its items.
C25_TiesBrokenById ==
    (pg.phase = "done" /\ pg.fn = "get_topic_progression") =>
        LET subtopicOrder(l) == IF l.kind = "decimal" THEN l.major * 10 + l.minor ELSE 0
            key(id) == << subtopicOrder(get_item(id).sub_topic),
                          get_item(id).question_num,
                          Difficulty(get_item(id).complexity) >>
            sorted_ids == << "ALGEBRA-BASICS-Q1", "ALGEBRA-EQN-Q1", "ALGEBRA-SIMP-Q1",
                             "ALGEBRA-SIMP-Q2", "ALGEBRA-SIMPLIFY-Q1", "ALGEBRA-WORD-Q1",
                             "LEGACY-Q1", "RATIO-ALGEBRA-Q1" >>
        IN  \A i, j \in 1..Len(pg.out) :
                (i < j /\ key(pg.out[i]) = key(pg.out[j])) =>
                    IndexOf(sorted_ids, pg.out[i]) < IndexOf(sorted_ids, pg.out[j])

\* C26: the subtopic order of a label that starts with the numeral
\* "major.minor" is major*10+minor, for all major and minor, and the order
\* of an absent label or of one without such a numeral is 0.
C26_SubtopicOrderIsMajorTimesTenPlusMinor ==
    (pg.phase = "done" /\ pg.fn = "_extract_subtopic_order") =>
        IF pg.label.kind = "decimal"
        THEN pg.out = pg.label.major * 10 + pg.label.minor
        ELSE pg.out = 0

\* C27: _discover_topic_items returns, each once, exactly the items of the
\* catalog whose id starts with the topic name and a hyphen or whose topic
\* field is the topic name, letter case apart; an item whose id holds the
\* topic name further on is not returned for that.
C27_DiscoverIsExact ==
    (pg.phase = "done" /\ pg.fn = "_discover_topic_items") =>
        /\ Range(pg.out) = {cache[i].id : i \in
                               {j \in 1..Len(cache) :
                                   \/ cache[j].ns = Upper(pg.topic_name)
                                   \/ Lower(cache[j].topic) = Lower(pg.topic_name)}}
        /\ Cardinality(Range(pg.out)) = Len(pg.out)

\* the items of algebra in a cache that holds one by its id, one by its
\* topic field and an item of ratio whose id holds the word ALGEBRA
C27_Witness ==
    /\ pg.phase = "done" /\ pg.fn = "_discover_topic_items"
    /\ pg.topic_name = "algebra"
    /\ CachedIds = {"ALGEBRA-SIMP-Q1", "LEGACY-Q1", "RATIO-ALGEBRA-Q1"}
    /\ Range(pg.out) = {"ALGEBRA-SIMP-Q1", "LEGACY-Q1"}

\* C28: with a subtopic filter the progression holds the items of the topic
\* whose subtopic field (sub_topic, or subtopic) is the filter, letter case
\* apart; only when no item's subtopic field matches does it hold the items
\* whose id contains the filter.  An item that matches by its id only is left
\* out as soon as one item matches by its subtopic field.
C28_IdMatchIsFallbackOnly ==
    (pg.phase = "done" /\ pg.fn = "get_topic_progression" /\ pg.subtopic_filter # None) =>
        LET items == Range(_discover_topic_items(pg.topic_name))
            by_field == {it \in items :
                            \/ /\ it.sub_topic.kind = "word"
                               /\ Lower(it.sub_topic.word) = Lower(pg.subtopic_filter)
                            \/ Lower(it.subtopic) = Lower(pg.subtopic_filter)}
            by_id == {it \in items : Upper(pg.subtopic_filter) \in it.id_tokens}
            kept == IF by_field # {} THEN by_field ELSE by_id
        IN  Range(pg.out) = {it.id : it \in kept}

\* C29: get_progression_status returns as total the length of the topic's
\* progression, as completed count the number of distinct items of the
\* progression that are in completed_items (between 0 and the total), as
\* percentage 100*completed/total (0 for total 0), and as next item the
\* recommendation recommend_next_session gives for the same learner and topic.
C29_StatusAgreesWithRecommendation ==
    (pg.phase = "done" /\ pg.fn = "get_progression_status") =>
        LET progression == get_topic_progression(pg.topic_name, None)
            total == Len(progression)
            completed == Cardinality(Range(progression) \cap Range(pg.completed_items))
        IN  /\ pg.out.total_items = total
            /\ pg.out.completed_count = completed
            /\ 0 <= pg.out.completed_count /\ pg.out.completed_count <= total
            /\ pg.out.completion_percentage
                   = (IF total = 0 THEN 0 ELSE (100 * completed) \div total)
            /\ pg.out.next_item_id
                   = recommend_next_session(pg.completed_items, pg.topic_name, None)

C31_TrackerCountsOccurrences ==
    [][\A tags \in TagLists, confidence \in Confidences, now \in 1..MaxTime :
          RunRecordMisconceptions(1, tags, confidence, now) =>
              LET m == sessions[1].misconceptions
                  n == sessions'[1].misconceptions
                  occurrences(tag) == Cardinality({i \in 1..Len(tags) : tags[i] = tag})
              IN  /\ DOMAIN n = DOMAIN m \cup Range(tags)
                  /\ \A tag \in DOMAIN n :
                        LET before == IF tag \in DOMAIN m THEN m[tag].count ELSE 0
                            scores == IF tag \in DOMAIN m THEN m[tag].confidence_scores
                                      ELSE <<>>
                        IN  /\ n[tag].count = before + occurrences(tag)
                            /\ n[tag].confidence_scores =
                                  scores \o [i \in 1..occurrences(tag) |-> confidence]
                            /\ tag \in Range(tags) => n[tag].last_seen = now
                            /\ tag \notin Range(tags) => n[tag] = m[tag]
                            /\ n[tag].first_seen =
                                  IF tag \in DOMAIN m THEN m[tag].first_seen ELSE now
                            /\ n[tag].count = Len(n[tag].confidence_scores)
                            /\ n[tag].count >= 1
                  /\ get_misconception_summary(sessions', 1) # ZeroDivisionError]_vars

\* a tag recorded at two clock readings: first_seen is the earlier call's
C31_Witness ==
    \E tag \in DOMAIN sessions[1].misconceptions :
        /\ sessions[1].misconceptions[tag].count >= 2
        /\ sessions[1].misconceptions[tag].first_seen # sessions[1].misconceptions[tag].last_seen

\* C32: a step, resume or end on one session leaves the record of every other
\* session as it was, and no operation on a session waits for a call on
\* another: while calls are pending a step can begin on any session, and every
\* pending call can complete whatever the other pending calls are.
C32_SessionsAreIndependent ==
    /\ [](/\ \A c \in calls : ENABLED (\E r \in StepReplies : StepComplete(c, r))
          /\ nreq < MaxRequests =>
                \A sid \in 1..Len(sessions), u \in UserResponses : ENABLED StepBegin(sid, u))
    /\ [][\A sid \in RequestSessionIds :
             \/ \A other \in 1..Len(sessions) :
                   other # sid => (Exists(sessions', other) /\ sessions'[other] = sessions[other])
             \/ ~(\/ Resume(sid)
                  \/ End(sid)
                  \/ \E u \in UserResponses : StepBegin(sid, u)
                  \/ \E c \in calls, r \in StepReplies :
                        c.session_id = sid /\ StepComplete(c, r))]_vars

\* a step on one session has been answered while a call on another session is
\* still with the judge
C32_Witness ==
    /\ resp.op = "step" /\ resp.status = 200
    /\ \E c \in calls :
          /\ c.session_id # resp.session_id
          /\ Exists(sessions, resp.session_id)
          /\ sessions[resp.session_id].conversation_history # <<>>

\* C33: a step marks the session finished, credits XP or marks the item
\* completed only when the judge's reply says is_correct and should_advance;
\* under a reply with is_correct true and should_advance false the session
\* stays in progress.
C33_CompletionNeedsShouldAdvance ==
    [][\A c \in calls :
          calls' = calls \ {c} =>
              \A r \in JudgeReplies :
                  LET session == sessions[c.session_id]
                      l == session.learner_id
                  IN  (/\ \/ sessions'[c.session_id].finished # session.finished
                          \/ profiles'[l].xp # profiles[l].xp
                          \/ profiles'[l].completed_items # profiles[l].completed_items
                       /\ StepComplete(c, r)) =>
                          (r.kind = "json" /\ r.is_correct = "True" /\ r.should_advance = "True")]_vars

\* C34: a learner's current-session pointer that is not null names an
\* existing, unfinished session of that learner, and a step that finishes one
\* session leaves the learner's pointer to another, still unfinished session.
C34_PointerNamesOpenSession ==
    /\ [](\A l \in Learners :
            LET sid == profiles[l].current_session_id
            IN  sid # 0 => /\ Exists(sessions, sid)
                           /\ ~sessions[sid].finished
                           /\ sessions[sid].learner_id = l)
    /\ [][\A c \in calls :
             calls' = calls \ {c} =>
                 LET l == sessions[c.session_id].learner_id
                     sid == profiles[l].current_session_id
                 IN  (/\ sid # 0 /\ sid # c.session_id
                      /\ ~sessions[sid].finished
                      /\ sessions'[c.session_id].finished)
                         => profiles'[l].current_session_id = sid]_vars

\* C35: a step that is answered with an error leaves the sessions and the
\* learner profiles as they were when the judge replied: no step finishes the
\* session, completes the item or credits XP and then fails.
C35_FailedStepChangesNothing ==
    [][(/\ calls' \subseteq calls
        /\ nreq' # nreq \/ calls' # calls
        /\ resp'.op = "step" /\ resp'.status >= 400)
           => (sessions' = sessions /\ profiles' = profiles)]_vars

\* C36: the xp_earned of the response of a successful step is the XP the step
\* added to the learner's profile.
C36_ReportedXpIsCreditedXp ==
    [][\A c \in calls :
          calls' = calls \ {c} =>
              LET l == sessions[c.session_id].learner_id
              IN  (/\ resp'.op = "step" /\ resp'.status = 200
                   /\ resp'.session_id = c.session_id
                   /\ resp'.correctness = "True")
                      => resp'.xp_earned = profiles'[l].xp - profiles[l].xp]_vars

\* C37: in a sequential run a learner's XP never decreases, changes only in a
\* step with the verdict True, and is the sum over the learner's finished
\* sessions of baseXp of the item's complexity (Easy 10, Medium 15, Hard 20)
\* times the item's marks.
C37_XpIsSumOverFinishedSessions ==
    /\ [](\A l \in Learners :
            LET base(item) == CASE item.complexity = "Easy" -> 10
                                [] item.complexity = "Medium" -> 15
                                [] item.complexity = "Hard" -> 20
                                [] OTHER -> 0
                worth(sid) == IF sessions[sid].learner_id = l /\ sessions[sid].finished
                              THEN base(get_question(sessions[sid].item_id))
                                   * get_question(sessions[sid].item_id).marks
                              ELSE 0
            IN  profiles[l].xp = SumSeq([sid \in 1..Len(sessions) |-> worth(sid)]))
    /\ [][\A l \in Learners :
             \/ profiles'[l].xp = profiles[l].xp
             \/ /\ profiles'[l].xp > profiles[l].xp
                /\ \E c \in calls, r \in StepReplies :
                      /\ sessions[c.session_id].learner_id = l
                      /\ evaluate_simplified(llm, r, c.attempts_so_far).correctness = "True"
                      /\ StepComplete(c, r)]_vars

\* C38: recommend_next_session returns None or the id of an item that is in
\* the progression of the topic and subtopic filter and is not among the
\* learner's completed items.
C38_RecommendationIsOpenItemOfScope ==
    (pg.phase = "done" /\ pg.fn = "recommend_next_session") =>
        \/ pg.out = None
        \/ /\ pg.out \in Range(get_topic_progression(pg.topic_name, pg.subtopic_filter))
           /\ pg.out \notin Range(pg.completed_items)

\* a learner who has completed the first item of a filtered progression and an
\* item outside it is recommended the second
C38_Witness ==
    /\ pg.phase = "done" /\ pg.fn = "recommend_next_session"
    /\ pg.subtopic_filter = "simp"
    /\ Range(pg.completed_items) = {"ALGEBRA-SIMP-Q1", "ALGEBRA-BASICS-Q1"}
    /\ "ALGEBRA-BASICS-Q1" \in CachedIds
    /\ pg.out = "ALGEBRA-SIMP-Q2"

====
